---- MODULE Spec2Model ----
(***************************************************************************)
(* Model of pyabnorm (temporal stability of iEEG abnormalities):           *)
(*   - compute_abnorm.compute_d_rs : per-window AUC of spared vs resected  *)
(*   - vis_abnorm.heatmap_abnormalities / plot_D_RS : time-axis validation *)
(*     and 12-hourly tick placement                                        *)
(*   - vis_abnorm.plot_outcome_auc : NaN removal and outcome AUC           *)
(*   - common.set_paths / save_plot over a file system                     *)
(*   - the plot_figure scripts: patient order, statement order, example    *)
(*     window, localising percentage, interictal/periictal medians         *)
(*                                                                         *)
(* Numbers.  A float is modelled as an exact rational <<num, den>> with    *)
(* den > 0; NaN is <<0, 0>>.  Matrix entries are integers <<v, 1>> or NaN. *)
(* An ndarray is a record [shape, at]: at[<<k, i>>] is ROI k in window i,    *)
(* both counted from 1 (the source counts from 0).                         *)
(***************************************************************************)
EXTENDS Integers, Sequences, FiniteSets, TLC

VARIABLES
    pc,             \* position of the modelled caller
    roi_data,       \* compute_d_rs argument: ROI x window ndarray
    roi_is_resect,  \* compute_d_rs argument: sequence of BOOLEAN over ROIs
    d_rs,           \* array returned by the latest compute_d_rs call
    raised,         \* TRUE when the latest call raised instead of returning
    t_days,         \* time of each window, in days, as a count of 1/DayUnits day
    called,         \* the plotting function called, "none" before the call
    err,            \* how it ended: "none" (not called), "ok", or the exception raised
    tick_x,         \* window indices (from 0, as in the source) computed for the ticks
    xticks,         \* what ax.set_xticks received
    ax,             \* the drawing surface: the set of things drawn or set on it
    good_outcome,   \* plot_outcome_auc argument: sequence of BOOLEAN over patients
    pnt_meas,       \* plot_outcome_auc argument: one measure per patient
    oa,             \* locals and results of the plot_outcome_auc call
    fs,             \* the file system: [dirs, files], sets of paths
    ret,            \* arguments and result of the latest common.py call
    ns,             \* the names a running script has bound, as a record
    plt             \* matplotlib's state: figures made, the current one, saves

analysisVars == <<roi_data, roi_is_resect, d_rs, raised, t_days, called, err, tick_x, xticks>>
outcomeVars == <<good_outcome, pnt_meas, oa>>
fileVars == <<fs, ret>>
scriptVars == <<ns, plt>>

vars == <<pc, analysisVars, ax, outcomeVars, fileVars, scriptVars>>

\* the parts of the state a component does not use
NoOutcome == good_outcome = <<>> /\ pnt_meas = <<>> /\ oa = <<>>
NoFiles == fs = <<>> /\ ret = <<>>
NoScript == ns = <<>> /\ plt = <<>>

----------------------------------------------------------------------------
(* Bounds of the explored inputs *)

MaxRoi == 4          \* ROIs of a matrix
MaxWin == 2          \* windows of a matrix
MaxVal == 1          \* matrix values are 0..MaxVal or NaN
FrameRoi == 3        \* ROIs of a matrix whose windows are edited
MaxWinT == 25        \* windows of a time axis
UnitsPerHour == 2    \* times are multiples of 1/UnitsPerHour hour
MaxPnt == 4          \* patients given to plot_outcome_auc
MaxMeas == 2         \* patient measures are 0..MaxMeas or NaN
MaxCalls == 2        \* calls of set_paths / save_plot in a row
MaxFiles == 3        \* patient files in the data folder
MaxNum == 2          \* the number in a file name is 1..MaxNum
MaxWinEx == 5        \* windows of the D_RS series an example is picked from
MaxWinLoc == 3       \* windows of a patient's D_RS series in the localising loop
MaxPntPeri == 2      \* patients of the interictal/periictal comparison
MaxWinPeri == 2      \* windows of a patient in the interictal/periictal comparison

----------------------------------------------------------------------------
(* Floats *)

NaN == <<0, 0>>
Val(v) == <<v, 1>>
isnan(x) == x[2] = 0

\* a < b and a = b on non-NaN rationals (denominators are positive)
Less(a, b) == a[1] * b[2] < b[1] * a[2]
Same(a, b) == a[1] * b[2] = b[1] * a[2]

Entries == {Val(v) : v \in 0..MaxVal} \cup {NaN}

\* np.sum of a boolean array
CountTrue(b) == Cardinality({k \in DOMAIN b : b[k]})

\* a[mask] : boolean-mask indexing keeps the selected entries in order
RECURSIVE Masked(_, _)
Masked(a, mask) ==
    IF a = <<>> \/ mask = <<>> THEN <<>>
    ELSE (IF Head(mask) THEN <<Head(a)>> ELSE <<>>) \o Masked(Tail(a), Tail(mask))

----------------------------------------------------------------------------
(* sklearn.metrics.roc_auc_score(y_true, y_score), binary case *)

\* raises ValueError: inconsistent lengths, NaN in the scores, or fewer than
\* two classes in y_true
roc_auc_raises(y_true, y_score) ==
    \/ Len(y_true) # Len(y_score)
    \/ \E k \in DOMAIN y_score : isnan(y_score[k])
    \/ CountTrue(y_true) = 0
    \/ CountTrue(y_true) = Len(y_true)

\* stable argsort by descending score
RECURSIVE ArgsortDesc(_, _)
ArgsortDesc(y_score, left) ==
    IF left = {} THEN <<>>
    ELSE LET k == CHOOSE k \in left : \A j \in left :
                     \/ Less(y_score[j], y_score[k])
                     \/ Same(y_score[j], y_score[k]) /\ k <= j
         IN  <<k>> \o ArgsortDesc(y_score, left \ {k})

\* roc_curve: cumulative true/false positive counts at each distinct
\* threshold, with the origin prepended; the area is the trapezoid rule
\* over (fps/N, tps/P).  Returned as <<2*area*P*N, 2*P*N>>.
roc_auc_score(y_true, y_score) ==
    LET n     == Len(y_score)
        order == ArgsortDesc(y_score, 1..n)
        ys    == [p \in 1..n |-> y_true[order[p]]]
        ss    == [p \in 1..n |-> y_score[order[p]]]
        \* positions closing a run of equal scores
        thr   == {p \in 1..n : p = n \/ ~Same(ss[p], ss[p + 1])}
        tps(p) == Cardinality({q \in 1..p : ys[q]})
        fps(p) == p - tps(p)
        prev(p) == IF \E q \in thr : q < p
                   THEN CHOOSE q \in thr : q < p /\ \A q2 \in thr : q2 < p => q2 <= q
                   ELSE 0
        trap(p) == (fps(p) - fps(prev(p))) * (tps(p) + tps(prev(p)))
        RECURSIVE Area2(_)
        Area2(S) == IF S = {} THEN 0
                    ELSE LET p == CHOOSE p \in S : TRUE
                         IN  trap(p) + Area2(S \ {p})
        P == tps(n)
        N == fps(n)
    IN  <<Area2(thr), 2 * P * N>>

----------------------------------------------------------------------------
(* compute_abnorm.compute_d_rs *)

\* roi_data.shape  (variant: the two dimensions unpacked in the wrong order)
shape_swapped(M) == <<M.shape[2], M.shape[1]>>
shape(M) == M.shape

\* np.invert of a boolean array
invert(b) == [k \in DOMAIN b |-> ~b[k]]

\* np.sum(b)>0 and np.sum(np.invert(b))>0  (variant: second test left out)
has_first_class_only(b) == CountTrue(b) > 0
has_both_classes(b) == CountTrue(b) > 0 /\ CountTrue(invert(b)) > 0

\* data_i = roi_data[:,i].copy()
column(M, i) == [k \in 1..M.shape[1] |-> M.at[<<k, i>>]]

\* keep_roi = np.invert(np.isnan(data_i))  (variant: an ROI is kept only if
\* it has a value in every window)
keep_roi_any_window(M, i) ==
    [k \in 1..M.shape[1] |-> \A j \in 1..M.shape[2] : ~isnan(M.at[<<k, j>>])]
keep_roi(M, i) == [k \in 1..M.shape[1] |-> ~isnan(M.at[<<k, i>>])]

\* spared_i = ~roi_is_resect[keep_roi]  (variants: the labels not inverted;
\* the labels cut to length instead of masked)
resected_i(r, keep) == Masked(r, keep)
spared_truncated(r, keep) == invert(SubSeq(r, 1, CountTrue(keep)))
spared_i(r, keep) == invert(Masked(r, keep))

\* sk_metrics.roc_auc_score(spared_i, data_i) as called for one window
\* (variant: the share of pairs the spared ROI wins, ties counting nothing)
auc_ties_lost(y_true, y_score) ==
    LET pos == {k \in DOMAIN y_true : y_true[k]}
        neg == {k \in DOMAIN y_true : ~y_true[k]}
        gt  == Cardinality({pq \in pos \X neg : Less(y_score[pq[2]], y_score[pq[1]])})
    IN  <<gt, Cardinality(pos) * Cardinality(neg)>>
window_auc(y_true, y_score) == roc_auc_score(y_true, y_score)

\* body of the loop for window i: [raised, value]
d_rs_window(M, r, i) ==
    IF i \notin 1..M.shape[2]
    THEN [raised |-> TRUE, value |-> NaN]           \* IndexError on roi_data[:,i]
    ELSE LET keep   == keep_roi(M, i)
             data_i == Masked(column(M, i), keep)
             spared == spared_i(r, keep)
         IN  IF has_both_classes(spared)
             THEN IF roc_auc_raises(spared, data_i)
                  THEN [raised |-> TRUE, value |-> NaN]
                  ELSE [raised |-> FALSE, value |-> window_auc(spared, data_i)]
             ELSE [raised |-> FALSE, value |-> NaN]

\* d_rs = d_rs*np.nan  (variant: the array of zeros returned as it is)
times_nan_forgotten(d) == d
times_nan(d) == [i \in DOMAIN d |-> NaN]

\* the loop over windows, d_rs[i] assigned in turn; <<>> when a window raises
d_rs_loop(M, r, n_win) ==
    IF \E i \in 1..n_win : d_rs_window(M, r, i).raised
    THEN [raised |-> TRUE, d_rs |-> <<>>]
    ELSE [raised |-> FALSE, d_rs |-> [i \in 1..n_win |-> d_rs_window(M, r, i).value]]

\* the call as a whole: what it returns (or that it raised) and the
\* caller's arrays as the call leaves them
compute_d_rs_body(M, r) ==
    LET n_win == shape(M)[2]
        zeros == [i \in 1..n_win |-> Val(0)]
    IN  IF has_both_classes(r)
        THEN d_rs_loop(M, r, n_win)
        ELSE [raised |-> FALSE, d_rs |-> times_nan(zeros)]

\* as compute_d_rs, had the missing values been zeroed in the caller's array
compute_d_rs_inplace(M, r) ==
    LET out == compute_d_rs_body(M, r)
    IN  [raised |-> out.raised, d_rs |-> out.d_rs,
         roi_data |-> [M EXCEPT !.at = [ki \in DOMAIN M.at |->
                          IF isnan(M.at[ki]) THEN Val(0) ELSE M.at[ki]]],
         roi_is_resect |-> r]
compute_d_rs(M, r) ==
    LET out == compute_d_rs_body(M, r)
    IN  [raised |-> out.raised, d_rs |-> out.d_rs,
         roi_data |-> M, roi_is_resect |-> r]

----------------------------------------------------------------------------
(* Inputs of compute_d_rs: every resection vector, one window drawn from   *)
(* all columns over Entries, the other windows sharing one background      *)
(* column (a ramp of values with the ROIs of the given kind missing).      *)

MaskKinds == {"none", "resected", "spared", "all"}

MaskedOut(r, kind, k) ==
    \/ kind = "all"
    \/ kind = "resected" /\ r[k]
    \/ kind = "spared" /\ ~r[k]

Background(r, kind) ==
    [k \in DOMAIN r |-> IF MaskedOut(r, kind, k) THEN NaN ELSE Val((k - 1) % (MaxVal + 1))]

Array(n_roi, n_win, cols) ==
    [shape |-> <<n_roi, n_win>>,
     at    |-> [ki \in (1..n_roi) \X (1..n_win) |-> cols[ki[2]][ki[1]]]]

\* M with window j replaced by column c
WithColumn(M, j, c) ==
    [M EXCEPT !.at = [ki \in DOMAIN M.at |-> IF ki[2] = j THEN c[ki[1]] ELSE M.at[ki]]]

NoTimeAxis ==
    /\ t_days = <<>>
    /\ called = "none"
    /\ err = "none"
    /\ tick_x = <<>>
    /\ xticks = <<>>
    /\ ax = {}
    /\ NoOutcome /\ NoFiles /\ NoScript

Inputs(max_roi, kinds) ==
    /\ pc = "ready"
    /\ \E n_roi \in 0..max_roi, n_win \in 0..MaxWin :
         \E r \in [1..n_roi -> BOOLEAN], c \in [1..n_roi -> Entries],
            f \in 1..MaxWin, kind \in kinds :
           /\ roi_is_resect = r
           /\ roi_data = Array(n_roi, n_win,
                               [i \in 1..n_win |-> IF i = f THEN c ELSE Background(r, kind)])
    /\ d_rs = <<>>
    /\ raised = FALSE
    /\ NoTimeAxis

InitDRS == Inputs(MaxRoi, {"resected"})

\* d_rs = ab_comp.compute_d_rs(roi_ab, roi_is_resect)
Call ==
    /\ pc = "ready"
    /\ \E out \in {compute_d_rs(roi_data, roi_is_resect)} :
         /\ d_rs' = out.d_rs
         /\ raised' = out.raised
         /\ roi_data' = out.roi_data
         /\ roi_is_resect' = out.roi_is_resect
    /\ pc' = "returned"
    /\ UNCHANGED <<t_days, called, err, tick_x, xticks, ax>>
    /\ UNCHANGED <<outcomeVars, fileVars, scriptVars>>

\* the same call made a second time on the same arrays
CallAgain ==
    /\ pc = "returned"
    /\ ~raised
    /\ \E out \in {compute_d_rs(roi_data, roi_is_resect)} :
         /\ d_rs' = out.d_rs
         /\ raised' = out.raised
         /\ roi_data' = out.roi_data
         /\ roi_is_resect' = out.roi_is_resect
    /\ pc' = "returned_again"
    /\ UNCHANGED <<t_days, called, err, tick_x, xticks, ax>>
    /\ UNCHANGED <<outcomeVars, fileVars, scriptVars>>

NextDRS == Call \/ CallAgain

SpecDRS == InitDRS /\ [][NextDRS]_vars

\* the call on matrices whose other windows are then varied
InitFrame == Inputs(FrameRoi, {"none", "resected"})

NextFrame == Call

SpecFrame == InitFrame /\ [][NextFrame]_vars

----------------------------------------------------------------------------
(* Properties of compute_d_rs *)

Returned == pc \in {"returned", "returned_again"}
NRoi == roi_data.shape[1]
NWin == roi_data.shape[2]
Windows == 1..NWin

\* ROIs of one class with a non-missing value in window i of M
Present(M, r, i, resected) ==
    {k \in 1..M.shape[1] : r[k] = resected /\ ~isnan(M.at[<<k, i>>])}

HasBothPresent(M, r, i) == Present(M, r, i, TRUE) # {} /\ Present(M, r, i, FALSE) # {}

\* (spared, resected) pairs of window i by the order of their values
PairsGt(M, r, i) ==
    {sr \in Present(M, r, i, FALSE) \X Present(M, r, i, TRUE) :
        Less(M.at[<<sr[2], i>>], M.at[<<sr[1], i>>])}
PairsEq(M, r, i) ==
    {sr \in Present(M, r, i, FALSE) \X Present(M, r, i, TRUE) :
        Same(M.at[<<sr[2], i>>], M.at[<<sr[1], i>>])}
PairsAll(M, r, i) == Present(M, r, i, FALSE) \X Present(M, r, i, TRUE)

BothClasses(r) == (\E k \in DOMAIN r : r[k]) /\ (\E k \in DOMAIN r : ~r[k])

\* C1: the call never raises, and entry i of the result is NaN exactly when
\* the ROIs with a value in window i lack a resected or a spared ROI.
C1_NaNIffClassMissing ==
    Returned =>
        /\ ~raised
        /\ DOMAIN d_rs = Windows
        /\ \A i \in Windows :
             isnan(d_rs[i]) <=> ~HasBothPresent(roi_data, roi_is_resect, i)

C1_Witness ==
    /\ Returned
    /\ ~raised
    /\ BothClasses(roi_is_resect)
    /\ \E i, j \in DOMAIN d_rs :
         /\ isnan(d_rs[i])
         /\ \E k \in 1..NRoi : ~isnan(roi_data.at[<<k, i>>])
         /\ ~isnan(d_rs[j])
         /\ \E k \in 1..NRoi : isnan(roi_data.at[<<k, j>>])

\* C2: where window i has a spared and a resected value, entry i is
\* (#pairs spared > resected + half #pairs equal) / (#spared * #resected).
C2_PairCountAUC ==
    (Returned /\ ~raised) =>
        \A i \in Windows :
            HasBothPresent(roi_data, roi_is_resect, i) =>
                /\ i \in DOMAIN d_rs
                /\ ~isnan(d_rs[i])
                /\ Same(d_rs[i],
                        <<2 * Cardinality(PairsGt(roi_data, roi_is_resect, i))
                            + Cardinality(PairsEq(roi_data, roi_is_resect, i)),
                          2 * Cardinality(PairsAll(roi_data, roi_is_resect, i))>>)

\* a window with a missing value, a tied pair and a pair the spared ROI
\* loses: the entry is 1/4
C2_Witness ==
    /\ Returned
    /\ ~raised
    /\ \E i \in DOMAIN d_rs :
         /\ \E k \in 1..NRoi : isnan(roi_data.at[<<k, i>>])
         /\ Cardinality(PairsEq(roi_data, roi_is_resect, i)) = 1
         /\ PairsGt(roi_data, roi_is_resect, i) = {}
         /\ Cardinality(PairsAll(roi_data, roi_is_resect, i)) = 2
         /\ d_rs[i][2] > 0
         /\ 4 * d_rs[i][1] = d_rs[i][2]

\* C3: the result has one entry per window, each NaN or within [0, 1].
C3_LengthAndRange ==
    (Returned /\ ~raised) =>
        /\ DOMAIN d_rs = Windows
        /\ \A i \in DOMAIN d_rs :
             isnan(d_rs[i]) \/ (d_rs[i][2] > 0 /\ 0 <= d_rs[i][1] /\ d_rs[i][1] <= d_rs[i][2])

C3_Witness ==
    /\ Returned
    /\ ~raised
    /\ Len(d_rs) = MaxWin
    /\ NRoi # NWin
    /\ \E i \in DOMAIN d_rs : isnan(d_rs[i])
    /\ \E i \in DOMAIN d_rs : ~isnan(d_rs[i]) /\ 0 < d_rs[i][1] /\ d_rs[i][1] < d_rs[i][2]

\* C4: with no resected ROI or no spared ROI every entry is NaN, and that
\* is what the per-window rule gives for each window.
C4_SingleClassAllNaN ==
    (Returned /\ ~BothClasses(roi_is_resect)) =>
        /\ ~raised
        /\ DOMAIN d_rs = Windows
        /\ \A i \in Windows :
             /\ isnan(d_rs[i])
             /\ ~d_rs_window(roi_data, roi_is_resect, i).raised
             /\ d_rs[i] = d_rs_window(roi_data, roi_is_resect, i).value

C4_Witness ==
    /\ Returned
    /\ ~BothClasses(roi_is_resect)
    /\ NRoi >= 2
    /\ NWin >= 2
    /\ \A i \in Windows : \E k \in 1..NRoi : ~isnan(roi_data.at[<<k, i>>])
    /\ \A i \in DOMAIN d_rs : isnan(d_rs[i])

\* C5: where every resected value of a window is below every spared value
\* (both present), the entry is exactly 1.
C5_SeparatedIsOne ==
    Returned =>
        \A i \in Windows :
            (/\ HasBothPresent(roi_data, roi_is_resect, i)
             /\ PairsGt(roi_data, roi_is_resect, i) = PairsAll(roi_data, roi_is_resect, i))
            => /\ ~raised
               /\ i \in DOMAIN d_rs
               /\ d_rs[i][2] > 0
               /\ d_rs[i][1] = d_rs[i][2]

C5_Witness ==
    /\ Returned
    /\ ~raised
    /\ \E i \in DOMAIN d_rs :
         /\ Cardinality(PairsAll(roi_data, roi_is_resect, i)) >= 2
         /\ PairsGt(roi_data, roi_is_resect, i) = PairsAll(roi_data, roi_is_resect, i)
         /\ \E k \in 1..NRoi : isnan(roi_data.at[<<k, i>>])
         /\ d_rs[i][1] = d_rs[i][2]
         /\ d_rs[i][2] > 0

\* C6: where all values of a window are equal across both groups (both
\* present), the entry is exactly 1/2.
C6_TiedIsHalf ==
    Returned =>
        \A i \in Windows :
            (/\ HasBothPresent(roi_data, roi_is_resect, i)
             /\ PairsEq(roi_data, roi_is_resect, i) = PairsAll(roi_data, roi_is_resect, i))
            => /\ ~raised
               /\ i \in DOMAIN d_rs
               /\ d_rs[i][2] > 0
               /\ 2 * d_rs[i][1] = d_rs[i][2]

C6_Witness ==
    /\ Returned
    /\ ~raised
    /\ \E i \in DOMAIN d_rs :
         /\ Cardinality(PairsAll(roi_data, roi_is_resect, i)) >= 2
         /\ PairsEq(roi_data, roi_is_resect, i) = PairsAll(roi_data, roi_is_resect, i)
         /\ d_rs[i][2] > 0
         /\ 2 * d_rs[i][1] = d_rs[i][2]

\* columns another window may be changed to: the background columns, and
\* the window's own column with one group, or all ROIs, made missing or
\* with its missing values filled in
Edits(M, r, j) ==
    {Background(r, "none")}
    \cup {[k \in DOMAIN r |-> IF MaskedOut(r, kind, k) THEN NaN ELSE M.at[<<k, j>>]] :
            kind \in MaskKinds \ {"none"}}
    \cup {[k \in DOMAIN r |-> IF isnan(M.at[<<k, j>>]) THEN Val(0) ELSE M.at[<<k, j>>]]}

\* C7: with both classes in the resection vector, entry i is the same
\* whatever the other windows hold: changing any other window j leaves it.
C7_OtherWindowsDoNotMatter ==
    (Returned /\ ~raised /\ BothClasses(roi_is_resect)) =>
        \A j \in Windows : \A c \in Edits(roi_data, roi_is_resect, j) :
            \A out \in {compute_d_rs(WithColumn(roi_data, j, c), roi_is_resect)} :
                /\ ~out.raised
                /\ DOMAIN out.d_rs = DOMAIN d_rs
                /\ \A i \in Windows \ {j} : out.d_rs[i] = d_rs[i]

\* one window NaN because a whole group is missing there, another defined
C7_Witness ==
    /\ Returned
    /\ ~raised
    /\ BothClasses(roi_is_resect)
    /\ \E i, j \in DOMAIN d_rs :
         /\ i # j
         /\ ~isnan(d_rs[i])
         /\ isnan(d_rs[j])
         /\ Present(roi_data, roi_is_resect, j, TRUE) = {}
         /\ Present(roi_data, roi_is_resect, j, FALSE) # {}

----------------------------------------------------------------------------
(* vis_abnorm.heatmap_abnormalities and vis_abnorm.plot_D_RS: validation   *)
(* of the time axis and placement of the x ticks.  t_days[p] counts        *)
(* 1/DayUnits day, so that a time in days is the rational                  *)
(* t_days[p] / DayUnits.                                                   *)

HoursPerDay == 24
TickHours == 12
DayUnits == HoursPerDay * UnitsPerHour

Inf == <<1, 0>>

\* 1/x for a rational x; 1/0 is inf in numpy arithmetic
Reciprocal(x) ==
    IF x[1] > 0 THEN <<x[2], x[1]>>
    ELSE IF x[1] < 0 THEN <<-x[2], -x[1]>>
    ELSE Inf

\* float.is_integer(): False for inf and NaN
is_integer(x) == x[2] # 0 /\ x[1] % x[2] = 0

\* int(x) of an integral x
int(x) == x[1] \div x[2]

\* win_per_hr = 1/((t_days[1] - t_days[0])*24)  (variant: the reciprocal
\* left out)
hr_per_win(t) == <<(t[2] - t[1]) * HoursPerDay, DayUnits>>
win_per_hr(t) == Reciprocal(<<(t[2] - t[1]) * HoursPerDay, DayUnits>>)

\* np.arange(0, stop, step) for integers, step # 0
arange(stop, step) ==
    IF step > 0 /\ stop > 0
    THEN [p \in 1..((stop + step - 1) \div step) |-> (p - 1) * step]
    ELSE <<>>

\* t_days[tick_x]
TimesAt(t, idx) == [p \in DOMAIN idx |-> t[idx[p] + 1]]

\* what heatmap_abnormalities draws before it validates the time axis: the
\* inset colour-bar axes and the heatmap
heatmap_drawn == {"colorbar_axes", "heatmap"}

\* heatmap_abnormalities(roi_data, t_days, roi_names, roi_is_resect, ax=ax):
\* the colour-bar axes and the heatmap are drawn, then the time axis is
\* validated, then the ticks, labels and the resected/spared line are set.
\* roi_data has one column per entry of t_days.
heatmap_abnormalities ==
    /\ pc = "ready"
    /\ called' = "heatmap_abnormalities"
    /\ pc' = "done"
    /\ LET n_win == Len(t_days)
           drawn == ax \cup heatmap_drawn
       IN  IF Len(t_days) < 2
           THEN /\ err' = "IndexError"
                /\ ax' = drawn
                /\ UNCHANGED <<tick_x, xticks>>
           ELSE IF ~is_integer(win_per_hr(t_days))
           THEN /\ err' = "ValueError"
                /\ ax' = drawn
                /\ UNCHANGED <<tick_x, xticks>>
           ELSE /\ err' = "ok"
                /\ tick_x' = arange(n_win, int(win_per_hr(t_days)) * TickHours)
                /\ xticks' = tick_x'
                /\ ax' = drawn \cup {"xticks", "xticklabels", "xlabel", "ylabel", "spines",
                                     "resect_line"}
    /\ UNCHANGED <<roi_data, roi_is_resect, d_rs, raised, t_days>>
    /\ UNCHANGED <<outcomeVars, fileVars, scriptVars>>

\* plot_D_RS(t_days, d_rs, ax=ax): the line is plotted and the limits set,
\* then the time axis is validated, then the ticks and labels are set
plot_D_RS ==
    /\ pc = "ready"
    /\ called' = "plot_D_RS"
    /\ pc' = "done"
    /\ LET n_win == Len(t_days)
       IN  IF Len(t_days) = 0
           THEN /\ err' = "ValueError_min_of_empty"    \* min(t_days)
                /\ ax' = ax \cup {"line"}
                /\ UNCHANGED <<tick_x, xticks>>
           ELSE IF Len(t_days) < 2
           THEN /\ err' = "IndexError"
                /\ ax' = ax \cup {"line", "xlim", "ylim"}
                /\ UNCHANGED <<tick_x, xticks>>
           ELSE IF ~is_integer(win_per_hr(t_days))
           THEN /\ err' = "ValueError"
                /\ ax' = ax \cup {"line", "xlim", "ylim"}
                /\ UNCHANGED <<tick_x, xticks>>
           ELSE /\ err' = "ok"
                /\ tick_x' = arange(n_win, int(win_per_hr(t_days)) * TickHours)
                /\ xticks' = TimesAt(t_days, tick_x')
                /\ ax' = ax \cup {"line", "xlim", "ylim", "ylabel", "title",
                                  "xticks", "xlabel", "hline"}
    /\ UNCHANGED <<roi_data, roi_is_resect, d_rs, raised, t_days>>
    /\ UNCHANGED <<outcomeVars, fileVars, scriptVars>>

\* Time axes: n windows from t0, s0 apart (s0 may be zero or negative), or
\* ascending with the one step after window q being s1 instead of s0
Steps == -1..(UnitsPerHour + 1)
Gaps == 1..(UnitsPerHour + 1)

TimeAxis(n, t0, s0, q, s1) ==
    [p \in 1..n |-> t0 + (p - 1) * s0 + (IF q > 0 /\ p > q THEN s1 - s0 ELSE 0)]

InitTime ==
    /\ pc = "ready"
    /\ roi_data = Array(0, 0, <<>>)
    /\ roi_is_resect = <<>>
    /\ d_rs = <<>>
    /\ raised = FALSE
    /\ \E n \in 0..MaxWinT, t0 \in {0, 1}, s0 \in Steps, q \in 0..MaxWinT, s1 \in Gaps :
         /\ q > 0 => s0 > 0
         /\ t_days = TimeAxis(n, t0, s0, q, s1)
    /\ called = "none"
    /\ err = "none"
    /\ tick_x = <<>>
    /\ xticks = <<>>
    /\ ax \in {{}, {"title"}}
    /\ NoOutcome /\ NoFiles /\ NoScript

NextTime == heatmap_abnormalities \/ plot_D_RS

SpecTime == InitTime /\ [][NextTime]_vars

----------------------------------------------------------------------------
(* Properties of the time-axis validation and the ticks *)

\* the windows per hour of the axis are a whole number w: w windows span an hour
IntegerRate(t) ==
    \E w \in (-UnitsPerHour..UnitsPerHour) \ {0} : w * (t[2] - t[1]) = UnitsPerHour

Rate(t) == CHOOSE w \in (-UnitsPerHour..UnitsPerHour) \ {0} : w * (t[2] - t[1]) = UnitsPerHour

\* C9: on an axis of at least two windows, either function raises the
\* ValueError exactly when the windows per hour are not a whole number, and
\* raises nothing when they are.
C9_ValueErrorIffNotInteger ==
    (pc = "done" /\ Len(t_days) >= 2) =>
        /\ err = "ValueError" <=> ~IntegerRate(t_days)
        /\ IntegerRate(t_days) => err = "ok"

C9_WitnessRejected ==
    /\ pc = "done"
    /\ called = "plot_D_RS"
    /\ Len(t_days) >= 2
    /\ t_days[2] - t_days[1] > UnitsPerHour
    /\ err = "ValueError"

C9_Witness ==
    /\ pc = "done"
    /\ called = "heatmap_abnormalities"
    /\ Len(t_days) >= 2
    /\ 0 < t_days[2] - t_days[1]
    /\ t_days[2] - t_days[1] < UnitsPerHour
    /\ err = "ok"

\* C10: when the validation passes with w windows per hour, the ticks are
\* at window indices 0, 12w, 24w, ... below the number of windows, and the
\* times of consecutive ticked windows are 12 hours apart.
C10_TicksEvery12Hours ==
    (pc = "done" /\ err = "ok") =>
        /\ \A p \in DOMAIN tick_x :
             /\ tick_x[p] = (p - 1) * TickHours * Rate(t_days)
             /\ tick_x[p] \in 0..(Len(t_days) - 1)
        /\ \A p \in DOMAIN tick_x : p + 1 \in DOMAIN tick_x =>
             t_days[tick_x[p + 1] + 1] - t_days[tick_x[p] + 1] = TickHours * UnitsPerHour

----------------------------------------------------------------------------
(* vis_abnorm.plot_outcome_auc(good_outcome, pnt_meas, ax=ax) *)

\* is_nan = np.isnan(pnt_meas)
is_nan_of(meas) == [k \in DOMAIN meas |-> isnan(meas[k])]

\* pnt_meas = pnt_meas[np.invert(is_nan)]
meas_kept(meas) == Masked(meas, invert(is_nan_of(meas)))

\* good_outcome = good_outcome[np.invert(is_nan)]  (variant: the outcomes
\* left as they came)
outcome_unfiltered(good, meas) == good
outcome_kept(good, meas) == Masked(good, invert(is_nan_of(meas)))

\* bad_outcome = good_outcome == 0  (variant: == 1)
bad_outcome_same(good) == good
bad_outcome_of(good) == [k \in DOMAIN good |-> ~good[k]]

\* the call: NaN measures removed, the count printed, the AUC computed with
\* bad outcome as the positive class (roc_auc_score raises when one class
\* is left; no patient left gives NaN), then the plot drawn on ax
plot_outcome_auc ==
    /\ pc = "ready"
    /\ pc' = "done"
    /\ LET is_nan == is_nan_of(pnt_meas)
           meas == meas_kept(pnt_meas)
           good == outcome_kept(good_outcome, pnt_meas)
           bad == bad_outcome_of(good)
           frame == [pnt_meas |-> meas, good_outcome |-> good, bad_outcome |-> bad,
                     printed |-> CountTrue(is_nan)]
       IN  IF Len(meas) > 0 /\ roc_auc_raises(bad, meas)
           THEN /\ oa' = frame @@ [err |-> "ValueError", auc |-> NaN]
                /\ ax' = ax
           ELSE /\ oa' = frame @@ [err |-> "ok",
                                   auc |-> IF Len(meas) > 0 THEN roc_auc_score(bad, meas)
                                           ELSE NaN]
                /\ ax' = ax \cup {"ylim", "hline", "title", "ylabel", "xlabel"}
                            \cup (IF Len(meas) > 0
                                  THEN {"violin", "swarm", "xticklabels"} ELSE {})
    /\ UNCHANGED <<analysisVars, good_outcome, pnt_meas, fileVars, scriptVars>>

Measures == {Val(v) : v \in 0..MaxMeas} \cup {NaN}

InitOutcome ==
    /\ pc = "ready"
    /\ roi_data = Array(0, 0, <<>>)
    /\ roi_is_resect = <<>>
    /\ d_rs = <<>>
    /\ raised = FALSE
    /\ t_days = <<>> /\ called = "none" /\ err = "none" /\ tick_x = <<>> /\ xticks = <<>>
    /\ ax = {}
    /\ \E n \in 0..MaxPnt :
         /\ good_outcome \in [1..n -> BOOLEAN]
         /\ pnt_meas \in [1..n -> Measures]
    /\ oa = <<>>
    /\ NoFiles /\ NoScript

NextOutcome == plot_outcome_auc

SpecOutcome == InitOutcome /\ [][NextOutcome]_vars

----------------------------------------------------------------------------
(* Properties of plot_outcome_auc *)

\* the positions of the patients with a measure, in ascending order
RECURSIVE KeptFrom(_)
KeptFrom(k) ==
    IF k > Len(pnt_meas) THEN <<>>
    ELSE (IF isnan(pnt_meas[k]) THEN <<>> ELSE <<k>>) \o KeptFrom(k + 1)

Kept == KeptFrom(1)

\* C11: the call keeps exactly the patients whose measure is not NaN, in
\* their original order, each kept measure still paired with that patient's
\* outcome, and the count it prints is the number of NaN measures.
C11_RemovesExactlyNaN ==
    pc = "done" =>
        /\ Len(oa.pnt_meas) = Len(Kept)
        /\ Len(oa.good_outcome) = Len(Kept)
        /\ \A p \in DOMAIN Kept :
             /\ oa.pnt_meas[p] = pnt_meas[Kept[p]]
             /\ oa.good_outcome[p] = good_outcome[Kept[p]]
        /\ oa.printed = Cardinality({k \in DOMAIN pnt_meas : isnan(pnt_meas[k])})
        /\ oa.printed + Len(Kept) = Len(pnt_meas)

\* a NaN measure between two kept patients of different outcome
C11_Witness ==
    /\ pc = "done"
    /\ Len(pnt_meas) >= 3
    /\ ~isnan(pnt_meas[1]) /\ isnan(pnt_meas[2]) /\ ~isnan(pnt_meas[3])
    /\ good_outcome[1] /\ ~good_outcome[2] /\ ~good_outcome[3]
    /\ oa.printed = 1
    /\ oa.good_outcome[2] = FALSE

\* (poor, good) pairs of patients with a measure, by the order of the pair
PoorGood == {pg \in (DOMAIN pnt_meas) \X (DOMAIN pnt_meas) :
                /\ ~isnan(pnt_meas[pg[1]]) /\ ~isnan(pnt_meas[pg[2]])
                /\ ~good_outcome[pg[1]] /\ good_outcome[pg[2]]}
PoorLarger == {pg \in PoorGood : Less(pnt_meas[pg[2]], pnt_meas[pg[1]])}
PoorEqual == {pg \in PoorGood : Same(pnt_meas[pg[2]], pnt_meas[pg[1]])}

\* C12: when patients of both outcomes are left, the AUC is the fraction
\* of (poor, good) pairs in which the poor-outcome patient has the larger
\* measure, a tie counting one half: 1 when every poor measure is above
\* every good one, 0 when every poor measure is below every good one.
C12_AUCPoorPositive ==
    (pc = "done" /\ PoorGood # {}) =>
        /\ oa.err = "ok"
        /\ Same(oa.auc, <<2 * Cardinality(PoorLarger) + Cardinality(PoorEqual),
                          2 * Cardinality(PoorGood)>>)
        /\ PoorLarger = PoorGood => Same(oa.auc, Val(1))
        /\ (PoorLarger = {} /\ PoorEqual = {}) => Same(oa.auc, Val(0))

\* a NaN removed, a won pair and a tied pair: AUC 3/4
C12_Witness ==
    /\ pc = "done"
    /\ oa.printed >= 1
    /\ Cardinality(PoorGood) = 2
    /\ Cardinality(PoorLarger) = 1
    /\ Cardinality(PoorEqual) = 1
    /\ Same(oa.auc, <<3, 4>>)

----------------------------------------------------------------------------
(* common.set_paths and common.save_plot over a file system.               *)
(* A path is the sequence of its components below the working directory,   *)
(* each a pair <<name, extension>>: the file fname.format is the component *)
(* <<fname, format>>, a folder has no extension.  fs.dirs and fs.files are *)
(* the directories and the regular files that exist.                       *)

Folder(name) == <<name, "">>

exists(f, path) == path = <<>> \/ path \in f.dirs \/ path \in f.files

Prefixes(path) == {SubSeq(path, 1, k) : k \in 1..Len(path)}

\* os.makedirs(path, exist_ok): every missing directory of the path is made;
\* raises when a component is a regular file, or when the directory exists
\* and exist_ok is not set
makedirs(f, path, exist_ok) ==
    IF Prefixes(path) \cap f.files # {}
    THEN [err |-> "FileExistsError", fs |-> f]
    ELSE IF path \in f.dirs /\ ~exist_ok
    THEN [err |-> "FileExistsError", fs |-> f]
    ELSE [err |-> "ok", fs |-> [f EXCEPT !.dirs = @ \cup Prefixes(path)]]

\* an optional argument: None or a list
None == [given |-> FALSE, list |-> <<>>]
Some(l) == [given |-> TRUE, list |-> l]

\* if plot_formats is None: plot_formats = ['png']  (variant: no default)
formats_as_given(plot_formats) == plot_formats.list
formats_or_default(plot_formats) ==
    IF ~plot_formats.given THEN <<"png">> ELSE plot_formats.list

\* os.path.join(plot_dir, f'{fname}.{format_i}')
plot_path(plot_dir, fname, format_i) == plot_dir \o << <<fname, format_i>> >>

\* save_plot(plot_dir, fname, plot_formats): the directory is made when the
\* path does not exist, then plt.savefig writes one file per listed format;
\* savefig raises when plot_dir is not a directory
save_plot_on(f, plot_dir, fname, plot_formats) ==
    LET made == IF ~exists(f, plot_dir) THEN makedirs(f, plot_dir, FALSE)
                ELSE [err |-> "ok", fs |-> f]
        formats == formats_or_default(plot_formats)
        paths == [k \in DOMAIN formats |-> plot_path(plot_dir, fname, formats[k])]
    IN  IF made.err # "ok"
        THEN [err |-> made.err, fs |-> made.fs, written |-> <<>>]
        ELSE IF formats # <<>> /\ plot_dir \notin made.fs.dirs
        THEN [err |-> "NotADirectoryError", fs |-> made.fs, written |-> <<>>]
        ELSE [err |-> "ok",
              fs |-> [made.fs EXCEPT !.files = @ \cup {paths[k] : k \in DOMAIN paths}],
              written |-> paths]

\* set_paths(data_dir, plot_dir): data_dir is rebound to 'data', the plot
\* folder is made, both names are returned
set_paths_on(f, data_dir, plot_dir) ==
    LET data_dir_102 == "data"
        made == makedirs(f, plot_dir, TRUE)
    IN  [err |-> made.err, fs |-> made.fs, result |-> <<data_dir_102, plot_dir>>]

DataDirs == {"data", "recordings"}
PlotDirs == {<<Folder("plots")>>, <<Folder("plots"), Folder("fig2")>>, <<Folder("out")>>}
Fnames == {"d_rs_auc", "d_rs_roc"}
FormatLists == {None, Some(<<>>), Some(<<"png">>), Some(<<"pdf">>),
                Some(<<"png", "pdf">>), Some(<<"pdf", "pdf">>)}

set_paths ==
    /\ pc = "ready"
    /\ ret.n < MaxCalls
    /\ \E data_dir \in DataDirs, plot_dir \in PlotDirs :
         LET out == set_paths_on(fs, data_dir, plot_dir)
         IN  /\ fs' = out.fs
             /\ ret' = [fn |-> "set_paths", n |-> ret.n + 1, before |-> fs,
                        data_dir |-> data_dir, plot_dir |-> plot_dir,
                        err |-> out.err, result |-> out.result]
    /\ UNCHANGED <<pc, analysisVars, ax, outcomeVars, scriptVars>>

save_plot ==
    /\ pc = "ready"
    /\ ret.n < MaxCalls
    /\ \E plot_dir \in PlotDirs, fname \in Fnames, plot_formats \in FormatLists :
         LET out == save_plot_on(fs, plot_dir, fname, plot_formats)
         IN  /\ fs' = out.fs
             /\ ret' = [fn |-> "save_plot", n |-> ret.n + 1, before |-> fs,
                        plot_dir |-> plot_dir, fname |-> fname,
                        plot_formats |-> plot_formats,
                        err |-> out.err, written |-> out.written]
    /\ UNCHANGED <<pc, analysisVars, ax, outcomeVars, scriptVars>>

\* the trees the calls may find: nothing, some of the plot folders, a
\* regular file where a folder is asked for, a plot already saved
InitFiles ==
    /\ pc = "ready"
    /\ roi_data = Array(0, 0, <<>>)
    /\ roi_is_resect = <<>>
    /\ d_rs = <<>>
    /\ raised = FALSE
    /\ t_days = <<>> /\ called = "none" /\ err = "none" /\ tick_x = <<>> /\ xticks = <<>>
    /\ ax = {}
    /\ NoOutcome
    /\ \E dirs \in SUBSET PlotDirs,
          files \in SUBSET {<<Folder("out")>>,
                            plot_path(<<Folder("plots"), Folder("fig2")>>, "d_rs_auc", "png")} :
         /\ \A d \in dirs : Prefixes(d) \subseteq dirs
         /\ \A f \in files : Prefixes(f) \ {f} \subseteq dirs
         /\ files \cap dirs = {}
         /\ fs = [dirs |-> dirs, files |-> files]
    /\ ret = [fn |-> "none", n |-> 0]
    /\ NoScript

NextFiles == set_paths \/ save_plot

SpecFiles == InitFiles /\ [][NextFiles]_vars

----------------------------------------------------------------------------
(* Properties of set_paths and save_plot *)

\* C13: set_paths returns the data folder name and the plot folder name it
\* was called with, whatever the two arguments are.
C13_ReturnsSpecifiedFolders ==
    (ret.fn = "set_paths" /\ ret.err = "ok") =>
        ret.result = <<ret.data_dir, ret.plot_dir>>

\* the formats the caller asked for
Requested == IF ret.plot_formats.given
             THEN {ret.plot_formats.list[k] : k \in DOMAIN ret.plot_formats.list}
             ELSE {"png"}

\* C14: after save_plot returns, plot_dir exists (made when it was absent,
\* left as it was otherwise), the files written are the one file
\* fname.<format> in plot_dir per requested format (fname.png alone without
\* a format list), they exist, and nothing else has changed.
C14_OneFilePerFormat ==
    (ret.fn = "save_plot" /\ ret.err = "ok") =>
        /\ exists(fs, ret.plot_dir)
        /\ ~exists(ret.before, ret.plot_dir) => ret.plot_dir \in fs.dirs
        /\ ret.before.dirs \subseteq fs.dirs
        /\ fs.dirs \ ret.before.dirs \subseteq Prefixes(ret.plot_dir)
        /\ {ret.written[k] : k \in DOMAIN ret.written}
             = {plot_path(ret.plot_dir, ret.fname, x) : x \in Requested}
        /\ fs.files = ret.before.files \cup {plot_path(ret.plot_dir, ret.fname, x) : x \in Requested}
        /\ \A x \in Requested :
             Cardinality({g \in fs.files : g = plot_path(ret.plot_dir, ret.fname, x)}) = 1

\* a nested folder made by the call, the default format written
C14_Witness ==
    /\ ret.fn = "save_plot" /\ ret.err = "ok"
    /\ ret.plot_dir = <<Folder("plots"), Folder("fig2")>>
    /\ <<Folder("plots")>> \notin ret.before.dirs
    /\ ~ret.plot_formats.given
    /\ plot_path(ret.plot_dir, ret.fname, "png") \in fs.files

\* two formats written into a folder that was there
C14_WitnessTwoFormats ==
    /\ ret.fn = "save_plot" /\ ret.err = "ok"
    /\ ret.plot_dir \in ret.before.dirs
    /\ ret.plot_formats = Some(<<"png", "pdf">>)
    /\ Len(ret.written) = 2

----------------------------------------------------------------------------
(* Properties of the drawing surface when the time-axis validation fails *)

\* C15: when the validation fails, the surface is left exactly as it was
\* before the call: no heatmap, colour-bar axes, line, limits or ticks are
\* added to it.
C15_SurfaceUntouchedOnFailure ==
    [][(pc' = "done" /\ err' = "ValueError") => ax' = ax]_vars

\* what the code does instead: on a failed validation heatmap_abnormalities
\* has drawn the heatmap and its colour-bar axes, and plot_D_RS the line and
\* the axis limits; no tick, label, title or reference line is added
DrawnBeforeValidation ==
    [][(pc' = "done" /\ err' = "ValueError") =>
          /\ called' = "heatmap_abnormalities" => ax' = ax \cup {"colorbar_axes", "heatmap"}
          /\ called' = "plot_D_RS" => ax' = ax \cup {"line", "xlim", "ylim"}]_vars

\* a heatmap call rejected on a surface that held a title
RejectedHeatmapDrawn ==
    /\ pc = "done"
    /\ err = "ValueError"
    /\ called = "heatmap_abnormalities"
    /\ ax = {"title", "colorbar_axes", "heatmap"}

----------------------------------------------------------------------------
(* The patient order of plot_figure3.py and plot_figure4_across_patients.py *)
(* A patient file is a record [file, num, good]: its place in the directory *)
(* listing, the number read from the digits of its name, and the outcome    *)
(* stored in it.  What is loaded from file k under a field name is the pair *)
(* <<field, k>>.                                                            *)

Content(f, field) == <<field, f.file>>

Bijections(n) == {perm \in [1..n -> 1..n] : \A a, b \in 1..n : perm[a] = perm[b] => a = b}

\* np.argsort(keys, kind='stable'): ascending, equal keys in index order
argsort_stable(keys) ==
    {perm \in Bijections(Len(keys)) :
        \A a, b \in 1..Len(keys) : a < b =>
            \/ keys[perm[a]] < keys[perm[b]]
            \/ keys[perm[a]] = keys[perm[b]] /\ perm[a] < perm[b]}

\* np.argsort(keys): the default kind is not stable, equal keys come out in
\* any order
argsort(keys) ==
    {perm \in Bijections(Len(keys)) :
        \A a, b \in 1..Len(keys) : a < b => keys[perm[a]] <= keys[perm[b]]}

\* [a[i] for i in idx]  and  a[idx]
Take(a, idx) == [p \in DOMAIN idx |-> a[idx[p]]]

\* np.invert of a boolean array as sort keys: False before True
InvertKeys(b) == [k \in DOMAIN b |-> IF b[k] THEN 0 ELSE 1]

\* the arrays each script fills per patient, beside all_good_outcome
PerPatient(script) ==
    IF script = "plot_figure3"
    THEN {"all_pnt_id", "all_d_rs", "all_d_rs_med", "all_n_day"}
    ELSE {"all_pnt_id", "all_d_rs", "all_win_ii", "all_win_peri"}

\* pnt_num = [...]; pnt_idx = np.argsort(pnt_num); all_fname = [all_fname[idx] ...]
SortByNumber ==
    /\ pc = "listed"
    /\ LET pnt_num == [k \in DOMAIN ns.all_fname |-> ns.all_fname[k].num]
       IN  \E pnt_idx \in argsort(pnt_num) :
             ns' = [ns EXCEPT !.all_fname = Take(ns.all_fname, pnt_idx)]
    /\ pc' = "sorted_by_number"
    /\ UNCHANGED <<analysisVars, ax, outcomeVars, fileVars, plt>>

\* for i in range(n_patients): load the file, compute, store in every array
LoadAll ==
    /\ pc = "sorted_by_number"
    /\ ns' = [a \in PerPatient(ns.script) |->
                  [i \in DOMAIN ns.all_fname |-> Content(ns.all_fname[i], a)]]
             @@ [all_good_outcome |-> [i \in DOMAIN ns.all_fname |-> ns.all_fname[i].good]]
             @@ ns
    /\ pc' = "loaded"
    /\ UNCHANGED <<analysisVars, ax, outcomeVars, fileVars, plt>>

\* sort_idx = np.argsort(np.invert(all_good_outcome), kind='stable'), then
\* every per-patient array is reindexed with sort_idx
SortByOutcome ==
    /\ pc = "loaded"
    /\ \E sort_idx \in argsort_stable(InvertKeys(ns.all_good_outcome)) :
         ns' = [a \in PerPatient(ns.script) \cup {"all_good_outcome"} |-> Take(ns[a], sort_idx)]
               @@ ns
    /\ pc' = "sorted_by_outcome"
    /\ UNCHANGED <<analysisVars, ax, outcomeVars, fileVars, plt>>

\* all_fname = os.listdir(data_dir): any files, in any order of their numbers
InitCohort ==
    /\ pc = "listed"
    /\ roi_data = Array(0, 0, <<>>)
    /\ roi_is_resect = <<>>
    /\ d_rs = <<>>
    /\ raised = FALSE
    /\ t_days = <<>> /\ called = "none" /\ err = "none" /\ tick_x = <<>> /\ xticks = <<>>
    /\ ax = {}
    /\ NoOutcome /\ NoFiles
    /\ \E n \in 0..MaxFiles, script \in {"plot_figure3", "plot_figure4_across_patients"} :
         \E num \in [1..n -> 1..MaxNum], good \in [1..n -> BOOLEAN] :
           ns = [script |-> script,
                 listing |-> [k \in 1..n |-> [file |-> k, num |-> num[k], good |-> good[k]]],
                 all_fname |-> [k \in 1..n |-> [file |-> k, num |-> num[k], good |-> good[k]]]]
    /\ plt = <<>>

NextCohort == SortByNumber \/ LoadAll \/ SortByOutcome

SpecCohort == InitCohort /\ [][NextCohort]_vars

----------------------------------------------------------------------------
(* Properties of the patient order *)

\* the file whose values stand at position p of the arrays
FileAt(p) == ns.listing[ns.all_pnt_id[p][2]]

\* C16: after both sorts, every good-outcome patient precedes every poor
\* one, within an outcome group the patients are in ascending order of
\* file number with equal numbers in directory-listing order, and every
\* per-patient array holds, at each position, the values of one same file.
C16_GroupedStableParallel ==
    pc = "sorted_by_outcome" =>
        /\ \A p, q \in DOMAIN ns.all_pnt_id : p < q =>
             /\ ns.all_good_outcome[q] => ns.all_good_outcome[p]
             /\ ns.all_good_outcome[p] = ns.all_good_outcome[q] =>
                  \/ FileAt(p).num < FileAt(q).num
                  \/ FileAt(p).num = FileAt(q).num /\ FileAt(p).file < FileAt(q).file
        /\ \A p \in DOMAIN ns.all_pnt_id :
             /\ ns.all_good_outcome[p] = FileAt(p).good
             /\ \A a \in PerPatient(ns.script) : ns[a][p] = Content(FileAt(p), a)

----------------------------------------------------------------------------
(* The four scripts as straight-line programs over matplotlib's state and  *)
(* the file system.  plt = [n, current, drawn, saved]: the figures made so *)
(* far (numbered from 1), the current figure, the drawing calls each       *)
(* figure has received, and one entry per save_plot call.                  *)

Op(kind, arg) == [op |-> kind, arg |-> arg]
Repeat(n, o) == [k \in 1..n |-> o]

Scripts == {"plot_figure2", "plot_figure3", "plot_figure4_across_patients",
            "plot_figure4_example_patient"}

\* the statements of each script that compute D_RS, make a figure, draw or
\* save, in source order; n is the number of patient files
Program(script, n) ==
    IF script = "plot_figure2" THEN
        << Op("set_paths", "fig2"), Op("compute_d_rs", 1),
           Op("figure", "plt.subplots"), Op("draw", "suptitle"),
           Op("draw", "heatmap_abnormalities"), Op("draw", "plot_D_RS"),
           Op("draw", "scatter"),
           Op("save_plot", "patient_1_abnormalities_and_d_rs"),
           Op("figure", "plt.subplots"), Op("draw", "suptitle"),
           Op("draw", "swarmplot"), Op("draw", "violinplot"), Op("draw", "colorbar"),
           Op("save_plot", "patient_1_abnormalities_example") >>
    ELSE IF script = "plot_figure3" THEN
        << Op("set_paths", "fig3") >> \o Repeat(n, Op("compute_d_rs", 1)) \o
        << Op("figure", "plt.figure") >> \o Repeat(n, Op("draw", "hist")) \o
        << Op("draw", "suptitle"), Op("save_plot", "d_rs_distributions"),
           Op("figure", "plt.subplots"), Op("draw", "hist"), Op("draw", "hist"),
           Op("save_plot", "localising_percentage"),
           Op("figure", "plt.subplots"), Op("draw", "plot_outcome_auc"),
           Op("save_plot", "d_rs_auc"),
           Op("figure", "plt.figure"), Op("draw", "plot"), Op("draw", "plot"),
           Op("save_plot", "d_rs_roc") >>
    ELSE IF script = "plot_figure4_across_patients" THEN
        << Op("set_paths", "fig4_across_patients") >> \o Repeat(n, Op("compute_d_rs", 1)) \o
        << Op("figure", "plt.figure") >> \o Repeat(n, Op("draw", "hist")) \o
        << Op("draw", "suptitle"),
           Op("save_plot", "interical_and_periictal_d_rs_distributions"),
           Op("figure", "plt.subplots"), Op("draw", "lineplot"), Op("draw", "scatterplot"),
           Op("save_plot", "median_interical_and_periictal_d_rs"),
           Op("figure", "plt.subplots"), Op("draw", "plot_outcome_auc"),
           Op("draw", "plot_outcome_auc"),
           Op("save_plot", "interictal_periictal_d_rs_auc") >>
    ELSE
        << Op("set_paths", "fig4_example"), Op("compute_d_rs", 1),
           Op("figure", "plt.subplots"), Op("draw", "suptitle"),
           Op("draw", "heatmap_abnormalities"), Op("draw", "axvline"),
           Op("draw", "plot_D_RS"), Op("draw", "plot_D_RS"), Op("draw", "axvline"),
           Op("save_plot", "patient_3_interictal_vs_periictal") >>

\* the statement the script is at
NextOp == Program(ns.script, ns.n_patients)[ns.at]

Advance(kind) ==
    /\ pc = "running"
    /\ NextOp.op = kind
    /\ pc' = IF ns.at = Len(Program(ns.script, ns.n_patients)) THEN "finished" ELSE "running"

\* the rendering functions of vis_abnorm make a figure of their own when
\* no axes are passed; every call in the scripts passes ax=  (variant: a
\* call that leaves it out)
VisFunctions == {"heatmap_abnormalities", "plot_D_RS", "plot_outcome_auc"}
ax_omitted(fn) == fn \notin VisFunctions
ax_passed(fn) == TRUE

\* data_dir,plot_dir = com.set_paths(); plot_dir = os.path.join(plot_dir, sub)
ScriptSetPaths ==
    /\ Advance("set_paths")
    /\ LET out == set_paths_on(fs, "data", <<Folder("plots")>>)
       IN  /\ fs' = out.fs
           /\ ns' = [ns EXCEPT !.at = @ + 1,
                               !.plot_dir = out.result[2] \o <<Folder(NextOp.arg)>>]
    /\ UNCHANGED <<analysisVars, ax, outcomeVars, ret, plt>>

\* d_rs = ab_comp.compute_d_rs(...)
ScriptCompute ==
    /\ Advance("compute_d_rs")
    /\ ns' = [ns EXCEPT !.at = @ + 1, !.computed = @ + 1,
                        !.computed_late = @ \/ plt.n > 0]
    /\ UNCHANGED <<analysisVars, ax, outcomeVars, fileVars, plt>>

\* fig = plt.figure(...) / fig,axs = plt.subplots(...)
ScriptFigure ==
    /\ Advance("figure")
    /\ plt' = [plt EXCEPT !.n = @ + 1, !.current = plt.n + 1,
                          !.drawn = @ \o <<0>>]
    /\ ns' = [ns EXCEPT !.at = @ + 1]
    /\ UNCHANGED <<analysisVars, ax, outcomeVars, fileVars>>

\* a drawing call on the axes of the latest figure, or a vis_abnorm function
ScriptRender ==
    /\ Advance("draw")
    /\ plt' = IF ax_passed(NextOp.arg)
              THEN [plt EXCEPT !.drawn[plt.current] = @ + 1]
              ELSE [plt EXCEPT !.n = @ + 1, !.current = plt.n + 1,
                               !.drawn = @ \o <<1>>]
    /\ ns' = [ns EXCEPT !.at = @ + 1]
    /\ UNCHANGED <<analysisVars, ax, outcomeVars, fileVars>>

\* com.save_plot(plot_dir, fname, plot_formats) with plot_formats = ['pdf']:
\* plt.savefig writes the current figure
ScriptSave ==
    /\ Advance("save_plot")
    /\ LET out == save_plot_on(fs, ns.plot_dir, NextOp.arg, Some(<<"pdf">>))
       IN  /\ fs' = out.fs
           /\ plt' = [plt EXCEPT !.saved = @ \o
                        <<[fig |-> plt.current, made |-> plt.n,
                           drawn |-> plt.drawn[plt.current], written |-> out.written]>>]
    /\ ns' = [ns EXCEPT !.at = @ + 1]
    /\ UNCHANGED <<analysisVars, ax, outcomeVars, ret>>

InitScripts ==
    /\ pc = "running"
    /\ roi_data = Array(0, 0, <<>>)
    /\ roi_is_resect = <<>>
    /\ d_rs = <<>>
    /\ raised = FALSE
    /\ t_days = <<>> /\ called = "none" /\ err = "none" /\ tick_x = <<>> /\ xticks = <<>>
    /\ ax = {}
    /\ NoOutcome
    /\ \E script \in Scripts, n \in 0..MaxFiles :
         /\ script \in {"plot_figure2", "plot_figure4_example_patient"} => n = 1
         /\ ns = [script |-> script, n_patients |-> n, at |-> 1, plot_dir |-> <<>>,
                  computed |-> 0, computed_late |-> FALSE]
    /\ \E dirs \in {{}, {<<Folder("plots")>>},
                    {<<Folder("plots")>>, <<Folder("plots"), Folder("fig3")>>}} :
         fs = [dirs |-> dirs, files |-> {}]
    /\ ret = <<>>
    /\ plt = [n |-> 0, current |-> 0, drawn |-> <<>>, saved |-> <<>>]

NextScripts == ScriptSetPaths \/ ScriptCompute \/ ScriptFigure \/ ScriptRender \/ ScriptSave

SpecScripts == InitScripts /\ [][NextScripts]_vars

----------------------------------------------------------------------------
(* Properties of the scripts *)

SavesOf(f) == {k \in DOMAIN plt.saved : plt.saved[k].fig = f}

\* no D_RS computed once a figure exists; every save wrote the latest
\* figure, nothing was drawn on it afterwards, every earlier figure has been
\* saved exactly once (the latest at most once, and once when the script
\* ends), and no path was written twice
SavedInOrder ==
    /\ ~ns.computed_late
    /\ \A k \in DOMAIN plt.saved :
         /\ plt.saved[k].fig = plt.saved[k].made
         /\ plt.saved[k].drawn > 0
         /\ plt.saved[k].drawn = plt.drawn[plt.saved[k].fig]
         /\ Len(plt.saved[k].written) = 1
         /\ plt.saved[k].written[1] \in fs.files
    /\ \A f \in 1..plt.n :
         /\ Cardinality(SavesOf(f)) <= 1
         /\ (f < plt.n \/ pc = "finished") => Cardinality(SavesOf(f)) = 1
    /\ \A k, l \in DOMAIN plt.saved :
         k # l => plt.saved[k].written[1] # plt.saved[l].written[1]

\* C17: in every script D_RS is computed before any figure is made, the
\* rendering calls write no file, each figure is saved by save_plot after
\* its last drawing call and before the next figure is made, and every
\* figure is saved exactly once, as the current figure, to a path of its
\* own.
C17_ComputeRenderSave ==
    [][/\ SavedInOrder'
       /\ NextOp.op \in {"compute_d_rs", "figure", "draw"} => fs' = fs
       /\ fs'.files # fs.files => NextOp.op = "save_plot"]_vars

\* plot_figure3.py finished on two patients: four figures, four files
C17_Witness ==
    /\ pc = "finished"
    /\ ns.script = "plot_figure3"
    /\ ns.n_patients = 2
    /\ ns.computed = 2
    /\ plt.n = 4
    /\ Len(plt.saved) = 4
    /\ Cardinality(fs.files) = 4

----------------------------------------------------------------------------
(* plot_figure2.py: the example window with median D_RS *)

\* D_RS values: an AUC in [0, 1] or NaN
DrsVals == {<<0, 1>>, <<1, 2>>, <<1, 1>>, NaN}

\* the non-NaN entries of a, ascending
RECURSIVE SortedFrom(_, _)
SortedFrom(a, left) ==
    IF left = {} THEN <<>>
    ELSE LET k == CHOOSE k \in left : \A j \in left : ~Less(a[j], a[k])
         IN  <<a[k]>> \o SortedFrom(a, left \ {k})

\* np.nanmedian(a): the middle of the sorted non-NaN entries, the mean of
\* the two middle ones when their number is even, NaN when there is none
nanmedian(a) ==
    LET v == SortedFrom(a, {k \in DOMAIN a : ~isnan(a[k])})
        n == Len(v)
    IN  IF n = 0 THEN NaN
        ELSE IF n % 2 = 1 THEN v[(n + 1) \div 2]
        ELSE LET lo == v[n \div 2]
                 hi == v[n \div 2 + 1]
             IN  <<lo[1] * hi[2] + hi[1] * lo[2], 2 * lo[2] * hi[2]>>

\* x == y on floats: never true of NaN
float_eq(x, y) == ~isnan(x) /\ ~isnan(y) /\ Same(x, y)

\* np.where(b)[0]: the positions where b holds, ascending (counted from 1
\* here, from 0 in the source)
RECURSIVE WhereFrom(_, _)
WhereFrom(b, k) ==
    IF k > Len(b) THEN <<>>
    ELSE (IF b[k] THEN <<k>> ELSE <<>>) \o WhereFrom(b, k + 1)

where(b) == WhereFrom(b, 1)

\* idx_scale by patient, in tenths
idx_scale(pnt_id) ==
    IF pnt_id = "patient 1" THEN 8 ELSE IF pnt_id = "patient 2" THEN 4 ELSE 3

\* int(np.ceil(n_idx*idx_scale)): a position counted from 0
scaled_position(n_idx, pnt_id) == (n_idx * idx_scale(pnt_id) + 9) \div 10

\* d_rs_med = np.nanmedian(d_rs); idx = np.where(d_rs == d_rs_med)[0];
\* n_idx = len(idx); idx = idx[int(np.ceil(n_idx*idx_scale))]
SelectExample ==
    /\ pc = "computed"
    /\ pc' = "selected"
    /\ LET d_rs_med == nanmedian(d_rs)
           idx == where([k \in DOMAIN d_rs |-> float_eq(d_rs[k], d_rs_med)])
           n_idx == Len(idx)
           at == scaled_position(n_idx, ns.pnt_id)
       IN  ns' = [pnt_id |-> ns.pnt_id, d_rs_med |-> d_rs_med, idx_all |-> idx,
                  n_idx |-> n_idx, at |-> at,
                  err |-> IF at < n_idx THEN "ok" ELSE "IndexError",
                  idx |-> IF at < n_idx THEN idx[at + 1] ELSE 0]
    /\ UNCHANGED <<analysisVars, ax, outcomeVars, fileVars, plt>>

InitExample ==
    /\ pc = "computed"
    /\ roi_data = Array(0, 0, <<>>)
    /\ roi_is_resect = <<>>
    /\ \E n \in 0..MaxWinEx : d_rs \in [1..n -> DrsVals]
    /\ raised = FALSE
    /\ t_days = <<>> /\ called = "none" /\ err = "none" /\ tick_x = <<>> /\ xticks = <<>>
    /\ ax = {}
    /\ NoOutcome /\ NoFiles
    /\ \E pnt_id \in {"patient 1", "patient 2", "patient 3"} : ns = [pnt_id |-> pnt_id]
    /\ plt = <<>>

NextExample == SelectExample

SpecExample == InitExample /\ [][NextExample]_vars

----------------------------------------------------------------------------
(* Properties of the example window *)

\* C18: whenever at least one window has the median D_RS, the position
\* int(ceil(n_idx*scale)) is a valid position among the n_idx such windows
\* for each of the scales 0.8, 0.4 and 0.3, so the selection raises nothing
\* and the selected window is one whose D_RS is the median.
C18_ExampleWindowExists ==
    (pc = "selected" /\ ns.n_idx >= 1) =>
        /\ ns.at \in 0..(ns.n_idx - 1)
        /\ ns.err = "ok"
        /\ ns.idx \in DOMAIN d_rs
        /\ float_eq(d_rs[ns.idx], ns.d_rs_med)

\* what holds instead: the selection succeeds exactly when the scaled
\* position is below n_idx, that is for n_idx >= 5 at scale 0.8 and for
\* n_idx >= 2 at scales 0.4 and 0.3, and then picks a median window
SelectionDefinedFrom ==
    pc = "selected" =>
        /\ ns.err = "ok" <=> ns.n_idx >= (IF ns.pnt_id = "patient 1" THEN 5 ELSE 2)
        /\ ns.err = "ok" => float_eq(d_rs[ns.idx], ns.d_rs_med)

----------------------------------------------------------------------------
(* plot_figure3.py: the localising percentage of each patient.  The loop   *)
(* is followed one patient at a time: ns holds the loop index i, the       *)
(* series all_d_rs[i] and the entry perc_localising[i] just written.       *)

\* x <= y on floats: never true of NaN
float_le(x, y) == ~isnan(x) /\ ~isnan(y) /\ (Less(x, y) \/ Same(x, y))

\* np.sum(np.invert(np.isnan(a)))  (variant: every window counted)
count_all(a) == Len(a)
count_not_nan(a) == CountTrue(invert([k \in DOMAIN a |-> isnan(a[k])]))

\* (np.sum(a <= 0.5)/np.sum(np.invert(np.isnan(a))))*100; 0/0 is NaN
perc_localising_of(a) ==
    <<100 * CountTrue([k \in DOMAIN a |-> float_le(a[k], <<1, 2>>)]), count_not_nan(a)>>

Series(max_win) == UNION {[1..n -> DrsVals] : n \in 0..max_win}

\* one pass of: for i in range(n_patients): perc_localising[i] = ...
LocalisingStep ==
    /\ pc = "localising"
    /\ ns.i < ns.n_patients
    /\ \E a \in Series(MaxWinLoc) :
         ns' = [ns EXCEPT !.i = @ + 1, !.all_d_rs_i = a,
                          !.perc_localising_i = perc_localising_of(a)]
    /\ pc' = "localising"
    /\ UNCHANGED <<analysisVars, ax, outcomeVars, fileVars, plt>>

InitLocalising ==
    /\ pc = "localising"
    /\ roi_data = Array(0, 0, <<>>)
    /\ roi_is_resect = <<>>
    /\ d_rs = <<>>
    /\ raised = FALSE
    /\ t_days = <<>> /\ called = "none" /\ err = "none" /\ tick_x = <<>> /\ xticks = <<>>
    /\ ax = {}
    /\ NoOutcome /\ NoFiles
    /\ \E n \in 0..MaxFiles :
         ns = [n_patients |-> n, i |-> 0, all_d_rs_i |-> <<>>, perc_localising_i |-> Val(0)]
    /\ plt = <<>>

NextLocalising == LocalisingStep

SpecLocalising == InitLocalising /\ [][NextLocalising]_vars

----------------------------------------------------------------------------
(* Properties of the localising percentage *)

NotNaNWindows == {k \in DOMAIN ns.all_d_rs_i : ~isnan(ns.all_d_rs_i[k])}
LocalisingWindows == {k \in NotNaNWindows :
                         2 * ns.all_d_rs_i[k][1] <= ns.all_d_rs_i[k][2]}

\* C19: a patient's localising percentage is 100 times the number of
\* windows with D_RS <= 0.5 over the number of non-NaN windows, NaN windows
\* counting in neither, and it lies in [0, 100] whenever the patient has a
\* non-NaN window.
C19_LocalisingPercentage ==
    (ns.i > 0 /\ NotNaNWindows # {}) =>
        /\ ~isnan(ns.perc_localising_i)
        /\ Same(ns.perc_localising_i,
                <<100 * Cardinality(LocalisingWindows), Cardinality(NotNaNWindows)>>)
        /\ ~Less(ns.perc_localising_i, Val(0))
        /\ ~Less(Val(100), ns.perc_localising_i)

\* a series with a NaN window, a window at 0.5 and a window above: 50 %
C19_Witness ==
    /\ ns.i > 0
    /\ Len(ns.all_d_rs_i) = 3
    /\ Cardinality(NotNaNWindows) = 2
    /\ \E k \in NotNaNWindows : Same(ns.all_d_rs_i[k], <<1, 2>>)
    /\ \E k \in NotNaNWindows : Same(ns.all_d_rs_i[k], Val(1))
    /\ Same(ns.perc_localising_i, Val(50))

----------------------------------------------------------------------------
(* plot_figure4_across_patients.py: median interictal and periictal D_RS   *)
(* per patient, and the removal before the paired comparison.  ns holds    *)
(* the two arrays of medians, filled one patient per pass of the loop.     *)

\* a = d.copy(); a[win == 0] = np.nan
only_where(d, win) == [k \in DOMAIN d |-> IF win[k] = 0 THEN NaN ELSE d[k]]

\* nan_peri = np.isnan(all_d_rs_peri_med); all_d_rs_ii_med[nan_peri] = np.nan
remove_where_nan(ii_med, peri_med) ==
    [i \in DOMAIN ii_med |-> IF isnan(peri_med[i]) THEN NaN ELSE ii_med[i]]

\* one pass of the loop over patients: the D_RS series and the two window
\* flags of patient i, the two masked copies, their medians stored
MedianStep ==
    /\ pc = "medians"
    /\ Len(ns.all_d_rs_ii_med) < ns.n_patients
    /\ \E n \in 0..MaxWinPeri :
         \E d \in [1..n -> DrsVals], win_ii \in [1..n -> {0, 1}], win_peri \in [1..n -> {0, 1}] :
           ns' = [ns EXCEPT
                    !.all_d_rs_ii_med = @ \o <<nanmedian(only_where(d, win_ii))>>,
                    !.all_d_rs_peri_med = @ \o <<nanmedian(only_where(d, win_peri))>>]
    /\ pc' = "medians"
    /\ UNCHANGED <<analysisVars, ax, outcomeVars, fileVars, plt>>

\* the removal before the scatter plot and the signed-rank tests
RemoveMissingPeri ==
    /\ pc = "medians"
    /\ Len(ns.all_d_rs_ii_med) = ns.n_patients
    /\ ns' = [ns EXCEPT !.all_d_rs_ii_med =
                            remove_where_nan(ns.all_d_rs_ii_med, ns.all_d_rs_peri_med)]
    /\ pc' = "removed"
    /\ UNCHANGED <<analysisVars, ax, outcomeVars, fileVars, plt>>

InitPeri ==
    /\ pc = "medians"
    /\ roi_data = Array(0, 0, <<>>)
    /\ roi_is_resect = <<>>
    /\ d_rs = <<>>
    /\ raised = FALSE
    /\ t_days = <<>> /\ called = "none" /\ err = "none" /\ tick_x = <<>> /\ xticks = <<>>
    /\ ax = {}
    /\ NoOutcome /\ NoFiles
    /\ \E n \in 0..MaxPntPeri :
         ns = [n_patients |-> n, all_d_rs_ii_med |-> <<>>, all_d_rs_peri_med |-> <<>>]
    /\ plt = <<>>

NextPeri == MedianStep \/ RemoveMissingPeri

SpecPeri == InitPeri /\ [][NextPeri]_vars

----------------------------------------------------------------------------
(* Properties of the interictal/periictal medians *)

\* C20: after the removal step every patient has both medians or neither:
\* the interictal median is NaN exactly when the periictal median is NaN.
C20_BothMediansOrNeither ==
    pc = "removed" =>
        \A i \in DOMAIN ns.all_d_rs_ii_med :
            isnan(ns.all_d_rs_ii_med[i]) <=> isnan(ns.all_d_rs_peri_med[i])

\* what holds instead: a patient without a periictal median has no
\* interictal median either; the converse is not enforced
NoPeriThenNoInterictal ==
    pc = "removed" =>
        \A i \in DOMAIN ns.all_d_rs_ii_med :
            isnan(ns.all_d_rs_peri_med[i]) => isnan(ns.all_d_rs_ii_med[i])

====
